---- MODULE Spec2Model ----
(***************************************************************************)
(* Lattice words (ballot sequences): validation, promotion, cyclic         *)
(* descents and the successor-based enumerator of rectangular_promotion.   *)
(*                                                                         *)
(* Rust slices are 0-based; a TLA+ sequence s holds slice element i at     *)
(* s[i+1].  Symbols, counts and positions keep the values the code uses.   *)
(* A Rust panic (index out of bounds, unwrap of None, u8 underflow) is the *)
(* outcome "Panic" of the operation that raises it.  The u8 counters are   *)
(* plain integers: within the bounds below none reaches 255, and every     *)
(* subtraction that could go below 0 is an explicit "Panic" outcome.       *)
(***************************************************************************)
EXTENDS Integers, Sequences, FiniteSets, TLC

\* Bounds of the model.
MaxRows == 3        \* length of the vector given to LatticeWords::new
MaxPart == 3        \* largest entry of that vector
MaxSize == 9        \* largest sum of that vector (length of the words)
MaxRawLen == 5      \* length of the byte sequence given to LatticeWord::new
MaxSym == 3         \* largest byte in that sequence
MaxExtraCalls == 2  \* next() calls made on an iterator after it reported the end

----------------------------------------------------------------------------
\* Sequence helpers.

At(s, i) == s[i + 1]

Put(s, i, v) == [s EXCEPT ![i + 1] = v]

Zeros(n) == [i \in 1..n |-> 0]

Last(s) == s[Len(s)]

RECURSIVE SumSeq(_)
SumSeq(s) == IF s = <<>> THEN 0 ELSE s[1] + SumSeq(Tail(s))

SeqsUpTo(S, n) == UNION {[1..k -> S] : k \in 0..n}

Count(s, v) == Cardinality({i \in 1..Len(s) : s[i] = v})

----------------------------------------------------------------------------
\* LatticeWords::new

\* Mutant: a single trailing zero is popped.
TrimTrailingZeros_Once(weight) ==
    IF Len(weight) > 0 /\ Last(weight) = 0
    THEN SubSeq(weight, 1, Len(weight) - 1)
    ELSE weight

RECURSIVE TrimTrailingZeros(_)
TrimTrailingZeros(weight) ==
    IF Len(weight) > 0 /\ Last(weight) = 0
    THEN TrimTrailingZeros(SubSeq(weight, 1, Len(weight) - 1))
    ELSE weight

LatticeWords_new(weight) ==
    IF \E i \in 1..(Len(weight) - 1) : weight[i + 1] > weight[i]
    THEN [tag |-> "Err", msg |-> "weight is not a partition", weight |-> <<>>]
    ELSE [tag |-> "Ok", msg |-> "", weight |-> TrimTrailingZeros(weight)]

----------------------------------------------------------------------------
\* init_starting_word

\* for row_index in 0..height { write row_index }
RowIndices(height) == [i \in 1..height |-> i - 1]

RECURSIVE Repeat(_, _)
Repeat(s, k) == IF k <= 0 THEN <<>> ELSE s \o Repeat(s, k - 1)

\* Mutant: the rows are taken from the first to the last, so the blocks of the
\* short columns come first.
RECURSIVE StartingFill_ShortColumnsFirst(_, _, _)
StartingFill_ShortColumnsFirst(weight, height, last_row) ==
    IF height = 0 THEN <<>>
    ELSE StartingFill_ShortColumnsFirst(weight, height - 1, weight[height])
         \o Repeat(RowIndices(height), weight[height] - last_row)

\* The bytes the nested loops write, for the rows height, height-1, .., 1 of
\* weight (weight.iter().rev()), last_row being the row processed before.
RECURSIVE StartingFill(_, _, _)
StartingFill(weight, height, last_row) ==
    IF height = 0 THEN <<>>
    ELSE Repeat(RowIndices(height), weight[height] - last_row)
         \o StartingFill(weight, height - 1, weight[height])

\* *row - last_row underflows (u8) when a row is shorter than the one after it.
FillUnderflows(weight) ==
    \/ \E h \in 1..(Len(weight) - 1) : weight[h] < weight[h + 1]
    \/ (Len(weight) > 0 /\ Last(weight) < 0)

init_starting_word(word, weight) ==
    IF FillUnderflows(weight) THEN [panic |-> TRUE, word |-> word]
    ELSE LET fill == StartingFill(weight, Len(weight), 0)
         IN  IF Len(fill) > Len(word)
             THEN [panic |-> TRUE, word |-> word]     \* word_iter.next().unwrap()
             ELSE [panic |-> FALSE,
                   word  |-> fill \o SubSeq(word, Len(fill) + 1, Len(word))]

----------------------------------------------------------------------------
\* LatticeWordsStreamingIter

LatticeWordsStreamingIter_new(weight) ==
    LET size == SumSeq(weight)
    IN  [weight |-> weight, first_pass |-> TRUE,
         current |-> Zeros(size), subweight |-> Zeros(size)]

\* Mutant: the rows are searched from the first, not from the last.
NewRowIndex_Lowest(subweight, target) ==
    LET Rows == {i \in 0..(Len(subweight) - 1) : At(subweight, i) = target}
    IN  IF Rows = {} THEN -1 ELSE CHOOSE i \in Rows : \A j \in Rows : i <= j

\* The loop of next() that looks for the first descent: the pairs from index
\* on, counting each pair's first element into subweight.
RECURSIVE FirstDescentScan(_, _, _)
FirstDescentScan(current, index, subweight) ==
    IF index + 1 >= Len(current)
    THEN [found |-> FALSE, first_descent |-> 0, subweight |-> subweight]
    ELSE LET first  == At(current, index)
             second == At(current, index + 1)
             sub    == Put(subweight, first, At(subweight, first) + 1)
         IN  IF second < first
             THEN [found |-> TRUE, first_descent |-> index + 1, subweight |-> sub]
             ELSE FirstDescentScan(current, index + 1, sub)

\* subweight.iter().enumerate().rev(), stopping at the first row equal to target.
RECURSIVE NewRowIndexFrom(_, _, _)
NewRowIndexFrom(subweight, index, target) ==
    IF index < 0 THEN -1                               \* iter.next().unwrap()
    ELSE IF At(subweight, index) = target THEN index
    ELSE NewRowIndexFrom(subweight, index - 1, target)

NewRowIndex(subweight, target) == NewRowIndexFrom(subweight, Len(subweight) - 1, target)

PanicStep(it) == [it |-> it, ret |-> [tag |-> "Panic", word |-> <<>>]]

\* Mutant: the count of the row the first descent leaves is not restored.
MoveFirstDescent_NoIncrement(subweight, old, new_row_index) ==
    [underflow |-> At(subweight, new_row_index) = 0,
     subweight |-> Put(subweight, new_row_index, At(subweight, new_row_index) - 1)]

\* "move the first descent into the new row": subweight[old] += 1;
\* subweight[new_row_index] -= 1 (u8: underflows below 0).
MoveFirstDescent(subweight, old, new_row_index) ==
    LET sub1 == Put(subweight, old, At(subweight, old) + 1)
    IN  [underflow |-> At(sub1, new_row_index) = 0,
         subweight |-> Put(sub1, new_row_index, At(sub1, new_row_index) - 1)]

\* The successor step of next(): lines 115-151.
SuccessorStep(it) ==
    LET scan == FirstDescentScan(it.current, 0, Zeros(Len(it.subweight)))
        scanned == [it EXCEPT !.subweight = scan.subweight]
    IN  IF ~scan.found
        THEN [it |-> scanned, ret |-> [tag |-> "None", word |-> <<>>]]
        ELSE
        LET fd  == scan.first_descent
            old == At(it.current, fd)
        IN  IF old + 1 >= Len(scan.subweight) THEN PanicStep(scanned)
            ELSE
            LET target == At(scan.subweight, old + 1)
                new_row_index == NewRowIndex(scan.subweight, target)
            IN  IF new_row_index < 0 THEN PanicStep(scanned)
                ELSE
                LET move == MoveFirstDescent(scan.subweight, old, new_row_index)
                    sub2 == move.subweight
                    cur1 == Put(it.current, fd, new_row_index)
                    pre  == init_starting_word(SubSeq(cur1, 1, fd), sub2)
                    cur2 == pre.word \o SubSeq(cur1, fd + 1, Len(cur1))
                IN  IF move.underflow \/ pre.panic
                    THEN PanicStep([scanned EXCEPT !.subweight = sub2])
                    ELSE [it  |-> [it EXCEPT !.subweight = sub2, !.current = cur2],
                          ret |-> [tag |-> "Some", word |-> cur2]]

\* Mutant: the first pass does not return and runs on into the successor step.
next_FirstPassFallsThrough(it) ==
    IF it.first_pass
    THEN LET start == init_starting_word(it.current, it.weight)
             it1   == [it EXCEPT !.first_pass = FALSE, !.current = start.word]
         IN  IF start.panic THEN PanicStep(it1) ELSE SuccessorStep(it1)
    ELSE SuccessorStep(it)

\* Mutant: reporting the end rearms the first pass.
next_RestartsAfterEnd(it) ==
    IF it.first_pass
    THEN LET start == init_starting_word(it.current, it.weight)
             it1   == [it EXCEPT !.first_pass = FALSE, !.current = start.word]
         IN  IF start.panic THEN PanicStep(it1)
             ELSE [it |-> it1, ret |-> [tag |-> "Some", word |-> start.word]]
    ELSE LET step == SuccessorStep(it)
         IN  IF step.ret.tag = "None"
             THEN [it |-> [step.it EXCEPT !.first_pass = TRUE], ret |-> step.ret]
             ELSE step

LatticeWordsStreamingIter_next(it) ==
    IF it.first_pass
    THEN LET start == init_starting_word(it.current, it.weight)
             it1   == [it EXCEPT !.first_pass = FALSE, !.current = start.word]
         IN  IF start.panic THEN PanicStep(it1)
             ELSE [it |-> it1, ret |-> [tag |-> "Some", word |-> start.word]]
    ELSE SuccessorStep(it)

----------------------------------------------------------------------------
\* LatticeWord::new

MinOf(s) == CHOOSE m \in {s[i] : i \in 1..Len(s)} : \A i \in 1..Len(s) : m <= s[i]

MaxOf(s) == CHOOSE m \in {s[i] : i \in 1..Len(s)} : \A i \in 1..Len(s) : m >= s[i]

\* The loop over the entries from position index on (0-based); TRUE when the
\* loop returns Err.
RECURSIVE BallotScanFails(_, _, _, _)
BallotScanFails(inner, index, min, counts) ==
    IF index >= Len(inner) THEN FALSE
    ELSE LET entry == At(inner, index) - min
             c     == Put(counts, entry, At(counts, entry) + 1)
         IN  IF entry > 0 /\ At(c, entry) > At(c, entry - 1)
             THEN TRUE
             ELSE BallotScanFails(inner, index + 1, min, c)

\* Mutant: the counts are not shifted by the minimum symbol.
LatticeWord_new_Unshifted(inner) ==
    IF Len(inner) > 0
       /\ BallotScanFails(inner, 0, 0, Zeros(MaxOf(inner) + 1))
    THEN [tag |-> "Err", msg |-> "word is not a lattice word", inner |-> <<>>]
    ELSE [tag |-> "Ok", msg |-> "", inner |-> inner]

LatticeWord_new(inner) ==
    IF Len(inner) > 0
       /\ BallotScanFails(inner, 0, MinOf(inner), Zeros(MaxOf(inner) + 1 - MinOf(inner)))
    THEN [tag |-> "Err", msg |-> "word is not a lattice word", inner |-> <<>>]
    ELSE [tag |-> "Ok", msg |-> "", inner |-> inner]

\* LatticeWord::unchecked_new
unchecked_new(inner) == [tag |-> "Ok", msg |-> "", inner |-> inner]

----------------------------------------------------------------------------
\* is_rectangle

\* Mutant: max_count is not reset when the running maximum grows.
RECURSIVE RectangleScan_NoReset(_, _, _, _, _, _)
RectangleScan_NoReset(word, index, min, max, min_count, max_count) ==
    IF index >= Len(word) THEN min_count = max_count
    ELSE LET character == At(word, index)
             max1  == IF character > max THEN character ELSE max
             minc1 == IF character = min THEN min_count + 1 ELSE min_count
             maxc1 == IF character = max1 THEN max_count + 1 ELSE max_count
         IN  RectangleScan_NoReset(word, index + 1, min, max1, minc1, maxc1)

RECURSIVE RectangleScan(_, _, _, _, _, _)
RectangleScan(word, index, min, max, min_count, max_count) ==
    IF index >= Len(word) THEN min_count = max_count
    ELSE LET character == At(word, index)
             grows == character > max
             max1  == IF grows THEN character ELSE max
             mc0   == IF grows THEN 0 ELSE max_count
             minc1 == IF character = min THEN min_count + 1 ELSE min_count
             maxc1 == IF character = max1 THEN mc0 + 1 ELSE mc0
         IN  RectangleScan(word, index + 1, min, max1, minc1, maxc1)

\* word[0] panics on the empty slice.
is_rectangle(word) ==
    IF Len(word) = 0 THEN [panic |-> TRUE, value |-> FALSE]
    ELSE [panic |-> FALSE, value |-> RectangleScan(word, 0, word[1], word[1], 0, 0)]

----------------------------------------------------------------------------
\* LatticeWord::promotion

NotRectangularMsg == "only implemented for rectangular shapes"

PromotionPanic == [tag |-> "Panic", msg |-> "", inner |-> <<>>]

\* for current_row in new_inner.iter_mut().rev(): the elements index, index-1,
\* .., 0 of new_inner.
RECURSIVE HoleScan(_, _, _, _, _, _)
HoleScan(new_inner, index, first, tracking_shape, hole_row, hole_column) ==
    IF index < 0 THEN unchecked_new(new_inner)
    ELSE LET current_row == At(new_inner, index)
             slot == current_row - first
         IN  IF slot < 0 \/ slot >= Len(tracking_shape) THEN PromotionPanic
             ELSE LET current_column == At(tracking_shape, slot) + 1
                      shape == Put(tracking_shape, slot, current_column)
                  IN  IF current_row = hole_row
                      THEN HoleScan(new_inner, index - 1, first, shape,
                                    hole_row, hole_column + 1)
                      ELSE IF current_column = hole_column
                      THEN IF hole_row = 0 THEN PromotionPanic   \* hole_row -= 1
                           ELSE IF hole_row - 1 = first
                           THEN unchecked_new(Put(new_inner, index, hole_row))
                           ELSE HoleScan(Put(new_inner, index, hole_row), index - 1,
                                         first, shape, hole_row - 1, hole_column)
                      ELSE HoleScan(new_inner, index - 1, first, shape,
                                    hole_row, hole_column)

\* Mutant: the last slot of the tracking shape is not set to 1.
PromotionTrackingShape_Unseeded(first, last) == Zeros(last - first + 1)

\* vec![0; usize::from(last - first) + 1] with its last slot set to 1.
PromotionTrackingShape(first, last) == Put(Zeros(last - first + 1), last - first, 1)

\* Mutant: the hole starts in column 0 instead of column 1.
promotion_HoleColumnZero(self) ==
    IF Len(self) = 0 THEN unchecked_new(<<>>)
    ELSE IF ~is_rectangle(self).value
    THEN [tag |-> "Err", msg |-> NotRectangularMsg, inner |-> <<>>]
    ELSE LET first == self[1]
             last  == Last(self)
             new_inner == <<first>> \o SubSeq(self, 1, Len(self) - 1)
         IN  IF last < first THEN PromotionPanic
             ELSE HoleScan(new_inner, Len(new_inner) - 1, first,
                           PromotionTrackingShape(first, last), last, 0)

promotion(self) ==
    IF Len(self) = 0 THEN unchecked_new(<<>>)
    ELSE IF ~is_rectangle(self).value
    THEN [tag |-> "Err", msg |-> NotRectangularMsg, inner |-> <<>>]
    ELSE LET first  == self[1]
             last   == Last(self)
             prefix == SubSeq(self, 1, Len(self) - 1)
             new_inner == <<first>> \o prefix
         IN  IF last < first THEN PromotionPanic      \* last - first
             ELSE HoleScan(new_inner, Len(new_inner) - 1, first,
                           PromotionTrackingShape(first, last), last, 1)

----------------------------------------------------------------------------
\* Pairs / EnumeratedPairs (pairs.rs): the consecutive pairs of a slice, each
\* with the index of its first element.  The state of the iterator is index.

\* Mutant: the pair is tagged with the index read after the advance.
Pairs_next_IndexAfterAdvance(inner, index) ==
    IF index < Len(inner)
    THEN IF index + 1 < Len(inner)
         THEN [some |-> TRUE, index |-> index + 1, enum |-> index + 1,
               first |-> At(inner, index), second |-> At(inner, index + 1)]
         ELSE [some |-> FALSE, index |-> index + 1, enum |-> index + 1,
               first |-> 0, second |-> 0]
    ELSE [some |-> FALSE, index |-> index, enum |-> index, first |-> 0, second |-> 0]

Pairs_next(inner, index) ==
    IF index < Len(inner)
    THEN IF index + 1 < Len(inner)
         THEN [some |-> TRUE, index |-> index + 1, enum |-> index,
               first |-> At(inner, index), second |-> At(inner, index + 1)]
         ELSE [some |-> FALSE, index |-> index + 1, enum |-> index,
               first |-> 0, second |-> 0]
    ELSE [some |-> FALSE, index |-> index, enum |-> index, first |-> 0, second |-> 0]

----------------------------------------------------------------------------
\* ScentIter: descents() is ScentIter::new(word, Less), ascents() is
\* ScentIter::new(word, Greater).

ScentIter_new(word, ordering) == [inner |-> word, index |-> 0, ordering |-> ordering]

\* Mutant: first.cmp(&second).
Cmp_FirstToSecond(a, b) == IF b < a THEN "Less" ELSE IF b > a THEN "Greater" ELSE "Equal"

\* second.cmp(&first)
Cmp(a, b) == IF a < b THEN "Less" ELSE IF a > b THEN "Greater" ELSE "Equal"

RECURSIVE ScentIter_next(_)
ScentIter_next(it) ==
    LET pair == Pairs_next(it.inner, it.index)
        it1  == [it EXCEPT !.index = pair.index]
    IN  IF ~pair.some THEN [it |-> it1, ret |-> [tag |-> "None", value |-> 0]]
        ELSE IF Cmp(pair.second, pair.first) = it.ordering
        THEN [it |-> it1, ret |-> [tag |-> "Some", value |-> pair.enum + 1]]
        ELSE ScentIter_next(it1)

\* Iterator::fold over a ScentIter, with the closure |partial, x| partial + x.
RECURSIVE ScentIter_fold(_, _)
ScentIter_fold(it, partial) ==
    LET step == ScentIter_next(it)
    IN  IF step.ret.tag = "Some"
        THEN ScentIter_fold(step.it, partial + step.ret.value)
        ELSE [it |-> step.it, sum |-> partial]

\* Mutant: the fold runs over descents().
major_index_OverDescents(inner) == ScentIter_fold(ScentIter_new(inner, "Less"), 0)

\* LatticeWord::major_index: self.ascents().fold(0, ..).
major_index(inner) == ScentIter_fold(ScentIter_new(inner, "Greater"), 0)

----------------------------------------------------------------------------
\* TableauCyclicDescentIter

NoCyclicIter ==
    [inner |-> <<>>, index |-> 0, tracking_shape |-> <<>>, cyclic_descent |-> 0,
     base |-> 0, hole_row |-> 0, hole_column |-> 0]

\* with_tracking_shape: the shape is reset whatever it held.
with_tracking_shape(word, tracking_shape) ==
    [inner |-> word, index |-> 0,
     tracking_shape |-> [i \in 1..Len(tracking_shape) |-> IF i = 1 THEN 1 ELSE 0],
     cyclic_descent |-> 0, base |-> word[1], hole_row |-> 0, hole_column |-> 1]

\* TableauCyclicDescentIter::new.  The shape is allocated with set_len and not
\* initialised; with_tracking_shape writes every slot before any is read, so
\* the model allocates it zeroed.
TableauCyclicDescentIter_new(word) ==
    LET rect == is_rectangle(word)
    IN  IF rect.panic THEN [tag |-> "Panic", msg |-> "", iter |-> NoCyclicIter]
        ELSE IF ~rect.value
        THEN [tag |-> "Err", msg |-> NotRectangularMsg, iter |-> NoCyclicIter]
        ELSE IF Last(word) < word[1]                      \* w.last() - w.first()
        THEN [tag |-> "Panic", msg |-> "", iter |-> NoCyclicIter]
        ELSE [tag |-> "Ok", msg |-> "",
              iter |-> with_tracking_shape(word, Zeros(Last(word) - word[1] + 1))]

\* Mutant: a cell of the hole's row does not clear the pending marker.
HoleStep_NoReset(it, current_row, current_column, index) ==
    IF current_row = it.hole_row
    THEN [it EXCEPT !.hole_column = @ + 1]
    ELSE IF current_column = it.hole_column
    THEN [it EXCEPT !.cyclic_descent = index + 2, !.hole_row = @ + 1]
    ELSE it

\* Mutant: the pending marker is the position of the pair's first element.
HoleStep_MarkerAtFirst(it, current_row, current_column, index) ==
    IF current_row = it.hole_row
    THEN [it EXCEPT !.cyclic_descent = 0, !.hole_column = @ + 1]
    ELSE IF current_column = it.hole_column
    THEN [it EXCEPT !.cyclic_descent = index + 1, !.hole_row = @ + 1]
    ELSE it

\* The hole tracking of one pair: lines 294-300.
HoleStep(it, current_row, current_column, index) ==
    IF current_row = it.hole_row
    THEN [it EXCEPT !.cyclic_descent = 0, !.hole_column = @ + 1]
    ELSE IF current_column = it.hole_column
    THEN [it EXCEPT !.cyclic_descent = index + 2, !.hole_row = @ + 1]
    ELSE it

\* next(): the for loop over the remaining pairs, then the pending marker.
\* ret.cyclic tells which return statement produced the value.
RECURSIVE TableauCyclicDescentIter_next(_)
TableauCyclicDescentIter_next(it) ==
    LET pair == Pairs_next(it.inner, it.index)
        it1  == [it EXCEPT !.index = pair.index]
    IN  IF ~pair.some
        THEN IF it.cyclic_descent > 0
             THEN [it  |-> [it1 EXCEPT !.cyclic_descent = 0],
                   ret |-> [tag |-> "Some", value |-> it.cyclic_descent, cyclic |-> TRUE]]
             ELSE [it |-> it1, ret |-> [tag |-> "None", value |-> 0, cyclic |-> FALSE]]
        ELSE
        LET current_row == pair.second - it.base
        IN  IF current_row < 0 \/ current_row >= Len(it.tracking_shape)
            THEN [it |-> it1, ret |-> [tag |-> "Panic", value |-> 0, cyclic |-> FALSE]]
            ELSE
            LET current_column == At(it.tracking_shape, current_row) + 1
                it2 == [it1 EXCEPT !.tracking_shape = Put(@, current_row, current_column)]
                it3 == HoleStep(it2, current_row, current_column, pair.enum)
            IN  IF pair.first < pair.second
                THEN [it |-> it3,
                      ret |-> [tag |-> "Some", value |-> pair.enum + 1, cyclic |-> FALSE]]
                ELSE TableauCyclicDescentIter_next(it3)

\* Iterator::collect over a TableauCyclicDescentIter.
RECURSIVE TableauCyclicDescentIter_collect(_, _)
TableauCyclicDescentIter_collect(it, out) ==
    LET step == TableauCyclicDescentIter_next(it)
    IN  IF step.ret.tag = "Some"
        THEN TableauCyclicDescentIter_collect(step.it, Append(out, step.ret.value))
        ELSE IF step.ret.tag = "None" THEN [tag |-> "Ok", out |-> out]
        ELSE [tag |-> "Panic", out |-> out]

----------------------------------------------------------------------------
\* The program: a caller that builds a LatticeWords from a weight and drives
\* its owning iterator, or validates a byte sequence, and computes statistics
\* of the LatticeWord it holds.

VARIABLES
    input,      \* the Vec<u8> given to LatticeWords::new
    raw,        \* the byte sequence given to LatticeWord::new
    words,      \* the result of LatticeWords::new
    iter,       \* the LatticeWordsStreamingIter inside the LatticeWordsIter
    ret,        \* what the last next() call on it returned
    yielded,    \* the owned words the iterator has returned so far, in order
    ended,      \* the number of next() calls that returned None
    lw,         \* the LatticeWord the caller holds (result of new, or a yielded word)
    orbit,      \* the results of the successive promotions of lw
    scent,      \* a ScentIter over lw, with what it has returned or folded to
    cyclic,     \* a TableauCyclicDescentIter over lw, with what it has returned
    pcyclic     \* the collected tableau_cyclic_descents() of the promotion of lw

vars == <<input, raw, words, iter, ret, yielded, ended, lw, orbit, scent, cyclic, pcyclic>>

Inputs == {w \in SeqsUpTo(0..MaxPart, MaxRows) : SumSeq(w) <= MaxSize}

RawWords == SeqsUpTo(0..MaxSym, MaxRawLen)

NoScent ==
    [tag |-> "Unset", iter |-> ScentIter_new(<<>>, "Less"), out |-> <<>>, ended |-> 0,
     sum |-> 0]

NoCyclic ==
    [tag |-> "Unset", msg |-> "", iter |-> NoCyclicIter, out |-> <<>>,
     marker |-> 0, ended |-> 0]

NoPromotedCyclic == [tag |-> "Unset", out |-> <<>>]

Init ==
    /\ \E pair \in ({<<>>} \X RawWords) \cup (Inputs \X {<<>>}) :
         input = pair[1] /\ raw = pair[2]
    /\ words = [tag |-> "Unset", msg |-> "", weight |-> <<>>]
    /\ iter = LatticeWordsStreamingIter_new(<<>>)
    /\ ret = [tag |-> "NoIter", word |-> <<>>]
    /\ yielded = <<>>
    /\ ended = 0
    /\ lw = [tag |-> "Unset", msg |-> "", inner |-> <<>>]
    /\ orbit = <<>>
    /\ scent = NoScent
    /\ cyclic = NoCyclic
    /\ pcyclic = NoPromotedCyclic

\* LatticeWords::new(input)
NewWords ==
    /\ words.tag = "Unset"
    /\ words' = LatticeWords_new(input)
    /\ UNCHANGED <<input, raw, iter, ret, yielded, ended, lw, orbit, scent, cyclic, pcyclic>>

\* LatticeWords::into_iter
IntoIter ==
    /\ words.tag = "Ok"
    /\ ret.tag = "NoIter"
    /\ iter' = LatticeWordsStreamingIter_new(words.weight)
    /\ ret' = [tag |-> "NotCalled", word |-> <<>>]
    /\ UNCHANGED <<input, raw, words, yielded, ended, lw, orbit, scent, cyclic, pcyclic>>

\* LatticeWordsIter::next: the streaming next(), and a yielded word copied into
\* an owned LatticeWord (From<&LatticeWord>), which the caller now holds.
IterNext ==
    /\ ret.tag \in {"NotCalled", "Some", "None"}
    /\ ended <= MaxExtraCalls
    /\ LET step == LatticeWordsStreamingIter_next(iter)
       IN  /\ iter' = step.it
           /\ ret' = step.ret
           /\ IF step.ret.tag = "Some"
              THEN /\ yielded' = Append(yielded, step.ret.word)
                   /\ lw' = unchecked_new(step.ret.word)
                   /\ orbit' = <<>>
                   /\ scent' = NoScent
                   /\ cyclic' = NoCyclic
                   /\ pcyclic' = NoPromotedCyclic
                   /\ UNCHANGED ended
              ELSE /\ ended' = IF step.ret.tag = "None" THEN ended + 1 ELSE ended
                   /\ UNCHANGED <<yielded, lw, orbit, scent, cyclic, pcyclic>>
    /\ UNCHANGED <<input, raw, words>>

\* LatticeWord::new(raw)
NewWord ==
    /\ lw.tag = "Unset"
    /\ lw' = LatticeWord_new(raw)
    /\ UNCHANGED <<input, raw, words, iter, ret, yielded, ended, orbit, scent, cyclic, pcyclic>>

\* lw.promotion()
Promote ==
    /\ lw.tag = "Ok"
    /\ scent.tag = "Unset"
    /\ orbit = <<>>
    /\ orbit' = <<promotion(lw.inner)>>
    /\ UNCHANGED <<input, raw, words, iter, ret, yielded, ended, lw, scent, cyclic, pcyclic>>

\* The loop of promotion_order goes on: the last promotion succeeded, lw has
\* not come back, and no word has come twice (a word that comes twice before
\* lw does would come for ever).
OrbitOpen ==
    /\ Last(orbit).tag = "Ok"
    /\ Last(orbit).inner # lw.inner
    /\ \A i, j \in 1..Len(orbit) : i # j => orbit[i] # orbit[j]

\* promotion() of the last result: "promotion applied k times is k sequential
\* single-step applications", repeated by promotion_order until lw comes back.
PromoteAgain ==
    /\ lw.tag = "Ok"
    /\ orbit # <<>>
    /\ OrbitOpen
    /\ orbit' = Append(orbit, promotion(Last(orbit).inner))
    /\ UNCHANGED <<input, raw, words, iter, ret, yielded, ended, lw, scent, cyclic, pcyclic>>

\* lw.tableau_cyclic_descents()
CyclicNew ==
    /\ lw.tag = "Ok"
    /\ scent.tag = "Unset"
    /\ cyclic.tag = "Unset"
    /\ LET res == TableauCyclicDescentIter_new(lw.inner)
       IN  cyclic' = [tag |-> res.tag, msg |-> res.msg, iter |-> res.iter,
                      out |-> <<>>, marker |-> 0, ended |-> 0]
    /\ UNCHANGED <<input, raw, words, iter, ret, yielded, ended, lw, orbit, scent, pcyclic>>

\* One next() call on the TableauCyclicDescentIter.
CyclicNext ==
    /\ cyclic.tag = "Ok"
    /\ cyclic.ended <= MaxExtraCalls
    /\ LET step == TableauCyclicDescentIter_next(cyclic.iter)
       IN  cyclic' =
             IF step.ret.tag = "Some"
             THEN [cyclic EXCEPT !.iter = step.it,
                                 !.out = Append(@, step.ret.value),
                                 !.marker = IF step.ret.cyclic THEN step.ret.value ELSE @]
             ELSE IF step.ret.tag = "None"
             THEN [cyclic EXCEPT !.iter = step.it, !.ended = @ + 1]
             ELSE [cyclic EXCEPT !.iter = step.it, !.tag = "Panic"]
    /\ UNCHANGED <<input, raw, words, iter, ret, yielded, ended, lw, orbit, scent, pcyclic>>

\* lw.descents() or lw.ascents(); the caller computes one kind of statistic of
\* a word at a time (the iterators share nothing but the immutable word).
ScentNew ==
    /\ lw.tag = "Ok"
    /\ scent.tag = "Unset"
    /\ orbit = <<>>
    /\ cyclic.tag = "Unset"
    /\ \E ordering \in {"Less", "Greater"} :
         scent' = [tag |-> "Live", iter |-> ScentIter_new(lw.inner, ordering),
                   out |-> <<>>, ended |-> 0, sum |-> 0]
    /\ UNCHANGED <<input, raw, words, iter, ret, yielded, ended, lw, orbit, cyclic, pcyclic>>

\* One next() call on the ScentIter.
ScentNext ==
    /\ scent.tag = "Live"
    /\ scent.ended <= MaxExtraCalls
    /\ LET step == ScentIter_next(scent.iter)
       IN  scent' =
             IF step.ret.tag = "Some"
             THEN [scent EXCEPT !.iter = step.it, !.out = Append(@, step.ret.value)]
             ELSE [scent EXCEPT !.iter = step.it, !.ended = @ + 1]
    /\ UNCHANGED <<input, raw, words, iter, ret, yielded, ended, lw, orbit, cyclic, pcyclic>>

\* lw.promotion().unwrap().tableau_cyclic_descents().unwrap().collect(), once
\* the cyclic descents of lw itself have been collected.
CyclicOfPromotion ==
    /\ lw.tag = "Ok"
    /\ cyclic.tag = "Ok"
    /\ cyclic.ended >= 1
    /\ orbit # <<>>
    /\ pcyclic.tag = "Unset"
    /\ LET promoted == orbit[1]
           res == TableauCyclicDescentIter_new(promoted.inner)
       IN  /\ promoted.tag = "Ok"
           /\ pcyclic' = IF res.tag = "Ok"
                         THEN TableauCyclicDescentIter_collect(res.iter, <<>>)
                         ELSE [tag |-> res.tag, out |-> <<>>]
    /\ UNCHANGED <<input, raw, words, iter, ret, yielded, ended, lw, orbit, scent, cyclic>>

\* lw.major_index(): the iterator of ascents() is made and folded in the call.
MajorIndex ==
    /\ lw.tag = "Ok"
    /\ scent.tag = "Unset"
    /\ orbit = <<>>
    /\ cyclic.tag = "Unset"
    /\ LET folded == major_index(lw.inner)
       IN  scent' = [tag |-> "Folded", iter |-> folded.it, out |-> <<>>, ended |-> 0,
                     sum |-> folded.sum]
    /\ UNCHANGED <<input, raw, words, iter, ret, yielded, ended, lw, orbit, cyclic, pcyclic>>

Next ==
    \/ NewWords
    \/ IntoIter
    \/ IterNext
    \/ NewWord
    \/ Promote
    \/ PromoteAgain
    \/ CyclicNew
    \/ CyclicNext
    \/ ScentNew
    \/ ScentNext
    \/ MajorIndex
    \/ CyclicOfPromotion

Spec == Init /\ [][Next]_vars

\* A caller that only enumerates: for word in LatticeWords::new(input)? { .. }.
EnumInit == Init /\ raw = <<>>

EnumNext ==
    \/ NewWords
    \/ IntoIter
    \/ IterNext

\* A next() call can be made: the guard of IterNext.  Every call changes the
\* state (a word is added to yielded, ended grows, or ret becomes "Panic"),
\* so this is ENABLED <<IterNext>>_vars.
IterNextEnabled ==
    /\ ret.tag \in {"NotCalled", "Some", "None"}
    /\ ended <= MaxExtraCalls

\* The for loop calls next() again as long as it can, so a call that stays
\* possible is made: weak fairness of IterNext, with IterNextEnabled for
\* ENABLED <<IterNext>>_vars.
IterNextFair == <>[]IterNextEnabled => []<><<IterNext>>_vars

EnumSpec == EnumInit /\ [][EnumNext]_vars /\ IterNextFair

----------------------------------------------------------------------------
\* Reference notions the claims are stated with, written from their
\* definitions and not from the code.

Prefix(w, k) == SubSeq(w, 1, k)

Symbols(w) == {w[i] : i \in 1..Len(w)}

\* The ballot property above the symbol lo: in every prefix, every symbol
\* v > lo present in it occurs at most as often as v - 1.
BallotAbove(w, lo) ==
    \A k \in 1..Len(w) : \A v \in Symbols(Prefix(w, k)) :
        v > lo => Count(Prefix(w, k), v) <= Count(Prefix(w, k), v - 1)

\* Symbol i occurs weight[i] times (slice indexing), and nothing else occurs.
HasContent(w, weight) ==
    /\ Len(w) = SumSeq(weight)
    /\ \A i \in 0..(Len(weight) - 1) : Count(w, i) = At(weight, i)

\* The ballot words of length k over the rows of weight that use no symbol
\* more often than weight allows: every prefix of a lattice word of content
\* weight is one of them.
RECURSIVE BallotPrefixes(_, _)
BallotPrefixes(weight, k) ==
    IF k = 0 THEN {<<>>}
    ELSE LET shorter == BallotPrefixes(weight, k - 1)
         IN  {w \in {Append(u, v) : u \in shorter, v \in 0..(Len(weight) - 1)} :
                /\ BallotAbove(w, 0)
                /\ \A i \in 0..(Len(weight) - 1) : Count(w, i) <= At(weight, i)}

LatticeWordsOf(weight) == BallotPrefixes(weight, SumSeq(weight))

\* All symbols of w occur equally often.
RectangularContent(w) == \A u, v \in Symbols(w) : Count(w, u) = Count(w, v)

SameContent(u, w) ==
    /\ Len(u) = Len(w)
    /\ \A v \in Symbols(u) \cup Symbols(w) : Count(u, v) = Count(w, v)

StrictlyIncreasing(s) == \A i \in 1..(Len(s) - 1) : s[i] < s[i + 1]

\* The elements of a set of numbers in increasing order.
RECURSIVE Ascending(_)
Ascending(S) ==
    IF S = {} THEN <<>>
    ELSE LET m == CHOOSE x \in S : \A y \in S : x <= y
         IN  <<m>> \o Ascending(S \ {m})

\* The 1-based positions i+1 with word[i] > word[i+1], resp. word[i] < word[i+1].
DescentPositions(w) == {i \in 1..(Len(w) - 1) : w[i] > w[i + 1]}

AscentPositions(w) == {i \in 1..(Len(w) - 1) : w[i] < w[i + 1]}

\* s is t, or t with one more value after it.
WithAtMostOneMore(s, t) ==
    \/ s = t
    \/ Len(s) = Len(t) + 1 /\ Prefix(s, Len(t)) = t

\* lw was built by LatticeWord::new(raw): nothing has been yielded over it.
FromRaw == lw.tag # "Unset" /\ yielded = <<>>

\* lw is a valid, non-empty word of rectangular content.
RectangularWord == lw.tag = "Ok" /\ lw.inner # <<>> /\ RectangularContent(lw.inner)

\* The word the i-th promotion of the orbit was applied to.
Promoted(i) == IF i = 1 THEN lw.inner ELSE orbit[i - 1].inner

YieldedSet == {yielded[i] : i \in 1..Len(yielded)}

----------------------------------------------------------------------------
\* The claims.

\* C1: driven until it reports exhaustion, the enumerator has yielded every
\* lattice word of the weight's content, each exactly once, and no call
\* panicked on the way.
C1_EnumeratesEachWordOnce ==
    /\ ret.tag # "Panic"
    /\ (ret.tag = "None" /\ ended = 1) =>
          /\ YieldedSet = LatticeWordsOf(words.weight)
          /\ Cardinality(YieldedSet) = Len(yielded)

C1_Witness ==
    /\ ret.tag = "None"
    /\ words.weight = <<3, 3, 3>>
    /\ Len(yielded) = 42

\* C2: after every next() call that returned a word, current (the buffer
\* wrapped by unchecked_new) is a lattice word whose content is the weight.
C2_CurrentIsLatticeWordOfWeight ==
    ret.tag = "Some" =>
        /\ ret.word = iter.current
        /\ lw = unchecked_new(iter.current)
        /\ BallotAbove(iter.current, 0)
        /\ HasContent(iter.current, words.weight)

C2_Witness ==
    /\ ret.tag = "Some"
    /\ Len(yielded) >= 10
    /\ Len(words.weight) = 3

\* C3: promotion of a valid, non-empty word of rectangular content succeeds,
\* and its result is a lattice word of the same length and content.
C3_PromotionKeepsLatticeAndContent ==
    RectangularWord =>
        \A i \in 1..Len(orbit) :
            /\ orbit[i].tag = "Ok"
            /\ Len(orbit[i].inner) = Len(Promoted(i))
            /\ BallotAbove(orbit[i].inner, MinOf(orbit[i].inner))
            /\ SameContent(orbit[i].inner, Promoted(i))

C3_Witness ==
    /\ RectangularWord
    /\ Len(lw.inner) = 9
    /\ Len(orbit) >= 2
    /\ orbit[1].inner # lw.inner
    /\ lw.inner[1] = 0

\* C4: the successive promotions of a word of rectangular content stop only
\* by giving the word back, and no promotion before the last gave it: the
\* word lies on its own cycle, whose length is the promotion order.
C4_PromotionOrbitReturns ==
    (RectangularWord /\ orbit # <<>> /\ ~OrbitOpen) =>
        /\ Last(orbit) = unchecked_new(lw.inner)
        /\ \A i \in 1..(Len(orbit) - 1) : orbit[i].inner # lw.inner

C4_Witness ==
    /\ RectangularWord
    /\ orbit # <<>>
    /\ ~OrbitOpen
    /\ Len(lw.inner) = 9
    /\ Len(orbit) = 9

\* C5 (as stated): LatticeWord::new succeeds exactly when, in every prefix,
\* every symbol v > 0 present occurs at most as often as v - 1.
C5_Original_BallotAboveZero ==
    FromRaw => (lw.tag = "Ok" <=> BallotAbove(raw, 0))

\* C5 (amended): LatticeWord::new succeeds exactly when, in every prefix, every
\* symbol v greater than the word's minimum symbol occurs at most as often as
\* v - 1; otherwise it fails with "word is not a lattice word" and no object.
C5_NewAcceptsBallotAboveMin ==
    FromRaw =>
        /\ lw.tag = "Ok" <=> (raw = <<>> \/ BallotAbove(raw, MinOf(raw)))
        /\ lw.tag = "Ok" => lw.inner = raw
        /\ lw.tag # "Ok" =>
              lw = [tag |-> "Err", msg |-> "word is not a lattice word", inner |-> <<>>]

C5_Witness ==
    /\ FromRaw
    /\ lw.tag = "Ok"
    /\ Len(raw) = 5
    /\ MinOf(raw) = 1
    /\ MaxOf(raw) = 2

\* The cyclic-descent iterator over a non-empty word has run to its end.
CyclicFinished == lw.tag = "Ok" /\ lw.inner # <<>> /\ cyclic.tag = "Ok" /\ cyclic.ended >= 1

\* C6 (as stated): the sequence of tableau_cyclic_descents() is the descent
\* positions of the word in increasing order, plus at most one trailing value.
C6_Original_DescentsPlusOne ==
    CyclicFinished =>
        WithAtMostOneMore(cyclic.out, Ascending(DescentPositions(lw.inner)))

\* C6 (amended): the sequence of tableau_cyclic_descents() is the ascent
\* positions of the word (the positions i+1 with word[i] < word[i+1], as
\* ascents() gives them) in increasing order, plus at most one trailing value.
C6_AscentsPlusOne ==
    CyclicFinished =>
        WithAtMostOneMore(cyclic.out, Ascending(AscentPositions(lw.inner)))

C6_Witness ==
    /\ CyclicFinished
    /\ Len(lw.inner) = 9
    /\ Len(cyclic.out) = Cardinality(AscentPositions(lw.inner)) + 1
    /\ DescentPositions(lw.inner) # {}

\* C7: over a non-empty word of rectangular content the iterator never
\* panics, what it has returned so far is strictly increasing, and the cyclic
\* marker, once returned, is the last value returned and is the length n.
C7_IncreasingAndMarkerIsLength ==
    (RectangularWord /\ cyclic.tag # "Unset") =>
        /\ cyclic.tag = "Ok"
        /\ StrictlyIncreasing(cyclic.out)
        /\ cyclic.marker > 0 =>
              /\ cyclic.marker = Len(lw.inner)
              /\ Last(cyclic.out) = cyclic.marker
              /\ cyclic.iter.cyclic_descent = 0

C7_Witness ==
    /\ RectangularWord
    /\ cyclic.marker = 9
    /\ cyclic.ended = 2
    /\ Len(cyclic.out) >= 4

\* C8: promotion of a valid non-empty word fails, with the NotRectangular
\* message and no word, exactly when the content is not rectangular; it
\* succeeds otherwise.
C8_NotRectangularIffContentNot ==
    (lw.tag = "Ok" /\ lw.inner # <<>> /\ orbit # <<>>) =>
        /\ orbit[1].tag \in {"Ok", "Err"}
        /\ orbit[1].tag = "Err" <=> ~RectangularContent(lw.inner)
        /\ orbit[1].tag = "Err" =>
              orbit[1] = [tag |-> "Err", msg |-> NotRectangularMsg, inner |-> <<>>]

C8_Witness ==
    /\ lw.tag = "Ok"
    /\ Len(lw.inner) >= 6
    /\ orbit # <<>>
    /\ orbit[1].tag = "Err"
    /\ Count(lw.inner, 0) = Count(lw.inner, 1)

\* C9: for every valid word, the empty one included, tableau_cyclic_descents()
\* returns an iterator exactly when promotion() returns a word, fails with
\* NotRectangular exactly when promotion() does, and does nothing else.
C9_SameOutcomeAsPromotion ==
    (lw.tag = "Ok" /\ orbit # <<>> /\ cyclic.tag # "Unset") =>
        /\ cyclic.tag \in {"Ok", "Err"}
        /\ cyclic.tag = "Ok" <=> orbit[1].tag = "Ok"
        /\ cyclic.tag = "Err" <=> (orbit[1].tag = "Err" /\ cyclic.msg = orbit[1].msg)

\* C10: once a next() call has reported the end, every later call reports the
\* end too: whenever some call has returned None, so did the last one.
C10_ExhaustionIsPermanent ==
    ended >= 1 => ret.tag = "None"

C10_Witness ==
    /\ ended = MaxExtraCalls + 1
    /\ ret.tag = "None"
    /\ Len(yielded) >= 5

\* The state right after the first next() call of an enumeration.
FirstYield ==
    /\ ret.tag = "Some"
    /\ Len(yielded) = 1
    /\ orbit = <<>>
    /\ scent.tag = "Unset"
    /\ cyclic.tag = "Unset"

\* u comes before w when compared from the first position on.
LexLess(u, w) ==
    \E k \in 1..Len(u) : u[k] < w[k] /\ \A j \in 1..(k - 1) : u[j] = w[j]

\* u comes before w when compared from the last position backwards.
RevLexLess(u, w) ==
    \E k \in 1..Len(u) : u[k] < w[k] /\ \A j \in (k + 1)..Len(u) : u[j] = w[j]

\* The columns of the diagram of weight, from the first (tallest) to the last,
\* each read from row 0 down.
ColumnHeight(weight, c) == Cardinality({i \in 1..Len(weight) : weight[i] >= c})

RECURSIVE ColumnReading(_, _)
ColumnReading(weight, c) ==
    IF weight = <<>> \/ c > weight[1] THEN <<>>
    ELSE [i \in 1..ColumnHeight(weight, c) |-> i - 1] \o ColumnReading(weight, c + 1)

\* C11 (as stated): the first word yielded is the lexicographically first
\* lattice word of the weight's content.
C11_Original_FirstIsLexFirst ==
    FirstYield =>
        \A w \in LatticeWordsOf(words.weight) : w # yielded[1] => LexLess(yielded[1], w)

\* C11 (amended): the first word yielded is the column reading of the weight,
\* and it is the lexicographically last lattice word of that content; it is
\* the first one in the order that compares from the last position backwards.
C11_FirstIsLexLast ==
    FirstYield =>
        /\ yielded[1] = ColumnReading(words.weight, 1)
        /\ yielded[1] \in LatticeWordsOf(words.weight)
        /\ \A w \in LatticeWordsOf(words.weight) :
              w # yielded[1] => LexLess(w, yielded[1]) /\ RevLexLess(yielded[1], w)

C11_Witness ==
    /\ FirstYield
    /\ words.weight = <<3, 2>>
    /\ yielded[1] = <<0, 1, 0, 1, 0>>

WeaklyDecreasing(s) == \A i \in 1..(Len(s) - 1) : s[i] >= s[i + 1]

\* s up to its last non-zero entry.
WithoutTrailingZeros(s) ==
    LET NonZero == {i \in 1..Len(s) : s[i] # 0}
    IN  IF NonZero = {} THEN <<>>
        ELSE Prefix(s, CHOOSE k \in NonZero : \A i \in NonZero : i <= k)

\* C12: LatticeWords::new fails, with the "not a partition" error and no
\* object, exactly when the input is not weakly decreasing; otherwise it
\* succeeds and stores the input without its trailing zero parts.
C12_NewFailsIffNotWeaklyDecreasing ==
    words.tag # "Unset" =>
        /\ words.tag \in {"Ok", "Err"}
        /\ words.tag = "Err" <=> ~WeaklyDecreasing(input)
        /\ words.tag = "Err" =>
              words = [tag |-> "Err", msg |-> "weight is not a partition", weight |-> <<>>]
        /\ words.tag = "Ok" => words.weight = WithoutTrailingZeros(input)

C12_Witness ==
    /\ words.tag = "Ok"
    /\ input = <<2, 0, 0>>
    /\ words.weight = <<2>>

\* The positions a ScentIter over lw is to give: descents() compares with
\* Less, ascents() with Greater.
ScentPositions ==
    IF scent.iter.ordering = "Less"
    THEN DescentPositions(lw.inner)
    ELSE AscentPositions(lw.inner)

\* C13: what descents() (resp. ascents()) has returned so far is an initial
\* part of the positions i+1 with word[i] > word[i+1] (resp. <) in increasing
\* order; once it has reported the end it has returned all of them, and
\* every further call reports the end again.
C13_ScentsArePositionsInOrder ==
    scent.tag = "Live" =>
        LET all == Ascending(ScentPositions)
        IN  /\ Len(scent.out) <= Len(all)
            /\ scent.out = Prefix(all, Len(scent.out))
            /\ scent.ended >= 1 => scent.out = all

C13_Witness ==
    /\ scent.tag = "Live"
    /\ lw.inner = <<0, 1, 0, 0, 1>>
    /\ scent.iter.ordering = "Greater"
    /\ scent.out = <<1, 4>>
    /\ scent.ended = MaxExtraCalls + 1

RECURSIVE SumOf(_)
SumOf(S) == IF S = {} THEN 0 ELSE LET x == CHOOSE y \in S : TRUE IN x + SumOf(S \ {x})

\* C14: major_index() is the sum of the ascent positions of the word, the sum
\* of i+1 over the 0-based i with word[i] < word[i+1]; descent positions do
\* not contribute.
C14_MajorIndexIsSumOfAscents ==
    scent.tag = "Folded" => scent.sum = SumOf(AscentPositions(lw.inner))

C14_Witness ==
    /\ scent.tag = "Folded"
    /\ lw.inner = <<0, 1, 0, 0, 1>>
    /\ scent.sum = 5

SetOf(s) == {s[i] : i \in 1..Len(s)}

\* The positions of S moved one step round the cycle 1..n.
Rotated(S, n) == {(d % n) + 1 : d \in S}

\* C15: for a valid non-empty word w of rectangular content and length n, the
\* positions tableau_cyclic_descents() gives for promotion(w) are those it
\* gives for w, each moved to (d mod n) + 1; there are as many of them.
C15_CyclicDescentsRotate ==
    (RectangularWord /\ pcyclic.tag # "Unset") =>
        /\ pcyclic.tag = "Ok"
        /\ SetOf(pcyclic.out) = Rotated(SetOf(cyclic.out), Len(lw.inner))
        /\ Len(pcyclic.out) = Len(cyclic.out)

C15_Witness ==
    /\ RectangularWord
    /\ Len(lw.inner) = 9
    /\ cyclic.marker = 9
    /\ pcyclic.tag = "Ok"
    /\ Len(pcyclic.out) >= 4
    /\ pcyclic.out[1] = 1
    /\ orbit[1].inner # lw.inner

\* The 0-based position of the second element of the first descent of w
\* (first_descent), for a word that has a descent.
FirstDescentOf(w) ==
    CHOOSE i \in DescentPositions(w) : \A j \in DescentPositions(w) : i <= j

\* cur agrees with prev after position first_descent of prev and has a
\* strictly larger symbol there.
StepRaises(prev, cur) ==
    /\ Len(cur) = Len(prev)
    /\ DescentPositions(prev) # {}
    /\ LET fd == FirstDescentOf(prev)
       IN  /\ \A i \in (fd + 1)..(Len(prev) - 1) : At(cur, i) = At(prev, i)
           /\ At(cur, fd) > At(prev, fd)

\* C16: each word yielded after the first agrees with the word before it after
\* that word's first descent and is strictly larger there, so it comes later
\* when compared from the last position backwards; the word yielded last has
\* no descent; and an enumeration that is driven reports the end.
C16_StepsRaiseAndEnumerationEnds ==
    /\ [](\A k \in 1..(Len(yielded) - 1) :
            /\ StepRaises(yielded[k], yielded[k + 1])
            /\ RevLexLess(yielded[k], yielded[k + 1]))
    /\ []((ended >= 1) => (yielded # <<>> /\ DescentPositions(Last(yielded)) = {}))
    /\ ((ret.tag = "NotCalled") ~> (ended >= 1))

C16_Witness ==
    /\ ended >= 1
    /\ words.weight = <<3, 2>>
    /\ yielded = << <<0, 1, 0, 1, 0>>, <<0, 0, 1, 1, 0>>, <<0, 1, 0, 0, 1>>,
                    <<0, 0, 1, 0, 1>>, <<0, 0, 0, 1, 1>> >>

====
